---- MODULE Spec2Model ----
(***************************************************************************)
(* Model of src/src/ApacheTomcatManager.py: the ApacheTomcatManager        *)
(* keyword library, its RequestConnection descriptors and the              *)
(* robot.utils.ConnectionCache instance it owns (self._cache).             *)
(*                                                                         *)
(* Python values are modelled as follows.                                  *)
(*  - A str is a sequence of one-character strings; an argument that may   *)
(*    be an int, a str or None is a tagged record (IntV, StrV, NoneV).     *)
(*  - An optional int (the value of ConnectionCache.current_index) is      *)
(*    None == << >> or Some(i) == << i >>.                                 *)
(*  - A RequestConnection object is an object id: its position in heap,    *)
(*    which holds the object's fields.  Object identity (Python's `is`)    *)
(*    is equality of ids.  The manager's field and the cache's `current`   *)
(*    hold a reference: Ref(id), PyNone (Python None) or NoConn (the       *)
(*    cache's NoConnection sentinel).                                      *)
(*                                                                         *)
(* robot.utils.ConnectionCache is a library the repository imports         *)
(* (line 8); its methods are modelled by their documented behaviour at     *)
(* the places the manager calls them.                                      *)
(***************************************************************************)
EXTENDS Integers, Sequences, FiniteSets, TLC

VARIABLES _connection, headers, _cache, heap, log, afterCloseAll, last,
          threads

vars == <<_connection, headers, _cache, heap, log, afterCloseAll, last,
          threads>>

\* Most connections registered between two resets.
MaxConns == 2

\* Most keyword calls one of the concurrent callers makes.
MaxCalls == 2

-----------------------------------------------------------------------------
(* Python values *)

IntV(i) == [t |-> "int", v |-> i]
StrV(s) == [t |-> "str", v |-> s]
NoneV == [t |-> "none", v |-> 0]

None == << >>
Some(i) == << i >>

PyNone == [k |-> "None", id |-> 0]
NoConn == [k |-> "NoConnection", id |-> 0]
Ref(id) == [k |-> "obj", id |-> id]

Digits == {"0", "1", "2", "3", "4", "5", "6", "7", "8", "9"}

DigitVal(c) ==
    CASE c = "0" -> 0 [] c = "1" -> 1 [] c = "2" -> 2 [] c = "3" -> 3
      [] c = "4" -> 4 [] c = "5" -> 5 [] c = "6" -> 6 [] c = "7" -> 7
      [] c = "8" -> 8 [] c = "9" -> 9

RECURSIVE DecVal(_)
DecVal(s) ==
    IF s = << >> THEN 0
    ELSE 10 * DecVal(SubSeq(s, 1, Len(s) - 1)) + DigitVal(s[Len(s)])

RECURSIVE LStrip(_)
LStrip(s) ==
    IF s # << >> /\ Head(s) = " " THEN LStrip(Tail(s)) ELSE s

RECURSIVE RStrip(_)
RStrip(s) ==
    IF s # << >> /\ s[Len(s)] = " " THEN RStrip(SubSeq(s, 1, Len(s) - 1)) ELSE s

\* int(x): an int is itself; a str is stripped and read as decimal digits
\* (ValueError otherwise); None is a TypeError.
PyInt(x) ==
    IF x.t = "int" THEN [ok |-> TRUE, v |-> x.v, exc |-> ""]
    ELSE IF x.t = "none" THEN [ok |-> FALSE, v |-> 0, exc |-> "TypeError"]
    ELSE LET s == RStrip(LStrip(x.v))
         IN  IF s # << >> /\ \A i \in 1..Len(s) : s[i] \in Digits
             THEN [ok |-> TRUE, v |-> DecVal(s), exc |-> ""]
             ELSE [ok |-> FALSE, v |-> 0, exc |-> "ValueError"]

Lower(c) ==
    CASE c = "T" -> "t" [] c = "M" -> "m" [] c = "C" -> "c" [] OTHER -> c

RECURSIVE Normalize(_)
\* robot.utils.normalize as NormalizedDict() applies it to a key: caseless
\* and spaceless.
Normalize(s) ==
    IF s = << >> THEN << >>
    ELSE IF Head(s) = " " THEN Normalize(Tail(s))
    ELSE <<Lower(Head(s))>> \o Normalize(Tail(s))

-----------------------------------------------------------------------------
(* RequestConnection *)

\* RequestConnection.__init__: the fields of a new descriptor.
RequestConnection(host, port, username, password, timeout) ==
    [host |-> host, port |-> port,
     url |-> <<"http://", host, ":", port, "/manager/text">>,
     auth |-> <<username, password>>,
     timeout |-> timeout]

\* bool(self._connection): a RequestConnection is truthy; None and the
\* NoConnection sentinel are falsy.
Truthy(ref) == ref.k = "obj"

-----------------------------------------------------------------------------
(* robot.utils.ConnectionCache, as used through self._cache *)

\* ConnectionCache(): no current connection, no connections, no aliases.
ConnectionCache ==
    [current |-> NoConn, _connections |-> << >>, _aliases |-> << >>]

\* ConnectionCache.current_index: None when there is no current connection,
\* else the 1-based position of the current object in _connections.
current_index(c) ==
    IF c.current = NoConn THEN None
    ELSE LET hits == {i \in 1..Len(c._connections) : c._connections[i] = c.current}
         IN  IF hits = {} THEN None
             ELSE Some(CHOOSE i \in hits : \A j \in hits : i <= j)

\* ConnectionCache.register(connection, alias): the connection becomes
\* current and is appended; a str alias is bound to the new index.
register(c, connection, alias) ==
    LET conns == Append(c._connections, connection)
        index == Len(conns)
        key   == Normalize(alias.v)
        al    == IF alias.t = "str"
                 THEN [k \in DOMAIN c._aliases \cup {key} |->
                          IF k = key THEN index ELSE c._aliases[k]]
                 ELSE c._aliases
    IN  [cache |-> [current |-> connection, _connections |-> conns, _aliases |-> al],
         ret |-> index]

\* resolve_alias_or_index with the two resolvers in the other order: the
\* value as an index first, the alias table when it is no valid index.
resolve_alias_or_index_number_first(c, x) ==
    LET n == PyInt(x)
    IN  IF n.ok /\ 0 < n.v /\ n.v <= Len(c._connections)
        THEN [ok |-> TRUE, index |-> n.v, msg |-> ""]
        ELSE IF x.t = "str" /\ Normalize(x.v) \in DOMAIN c._aliases
        THEN [ok |-> TRUE, index |-> c._aliases[Normalize(x.v)], msg |-> ""]
        ELSE [ok |-> FALSE, index |-> 0, msg |-> "Non-existing index or alias"]

\* ConnectionCache.resolve_alias_or_index: the alias table first, then the
\* value as an index in 1..len(_connections).
resolve_alias_or_index(c, x) ==
    IF x.t = "str" /\ Normalize(x.v) \in DOMAIN c._aliases
    THEN [ok |-> TRUE, index |-> c._aliases[Normalize(x.v)], msg |-> ""]
    ELSE LET n == PyInt(x)
         IN  IF ~n.ok
             THEN [ok |-> FALSE, index |-> 0,
                   msg |-> IF n.exc = "ValueError" THEN "invalid literal for int()"
                           ELSE "Non-existing index or alias"]
             ELSE IF 0 < n.v /\ n.v <= Len(c._connections)
             THEN [ok |-> TRUE, index |-> n.v, msg |-> ""]
             ELSE [ok |-> FALSE, index |-> 0, msg |-> "Non-existing index or alias"]

\* ConnectionCache.switch(alias_or_index): the resolved connection becomes
\* current and is returned; RuntimeError, with nothing changed, otherwise.
switch(c, x) ==
    IF x.t = "none"
    THEN IF c.current = NoConn
         THEN [ok |-> FALSE, cache |-> c, ret |-> NoConn, msg |-> "No open connection."]
         ELSE [ok |-> TRUE, cache |-> c, ret |-> c.current, msg |-> ""]
    ELSE LET r == resolve_alias_or_index(c, x)
         IN  IF r.ok
             THEN [ok |-> TRUE,
                   cache |-> [c EXCEPT !.current = c._connections[r.index]],
                   ret |-> c._connections[r.index], msg |-> ""]
             ELSE [ok |-> FALSE, cache |-> c, ret |-> NoConn, msg |-> r.msg]

\* close_all that empties the connections and leaves the aliases bound.
close_all_keeps_aliases(c) ==
    [cache |-> [ConnectionCache EXCEPT !._aliases = c._aliases],
     ret |-> ConnectionCache.current]

\* ConnectionCache.close_all(): every connection's close() is called (a
\* no-op for RequestConnection), the cache is emptied, and the current
\* connection, now the NoConnection sentinel, is returned.
close_all(c) ==
    [cache |-> ConnectionCache, ret |-> ConnectionCache.current]

-----------------------------------------------------------------------------
(* Text helpers: str.split, slicing, urllib.parse.quote *)

\* Position of the first sep in s, 0 when there is none.
Find(s, sep) ==
    IF \E i \in 1..Len(s) : s[i] = sep
    THEN CHOOSE i \in 1..Len(s) : s[i] = sep /\ \A j \in 1..(i - 1) : s[j] # sep
    ELSE 0

RECURSIVE Split(_, _)
\* s.split(sep): always at least one piece.
Split(s, sep) ==
    LET i == Find(s, sep)
    IN  IF i = 0 THEN <<s>>
        ELSE <<SubSeq(s, 1, i - 1)>> \o Split(SubSeq(s, i + 1, Len(s)), sep)

\* s.split(sep, 1): at most one cut, at the first sep.
Split1(s, sep) ==
    LET i == Find(s, sep)
    IN  IF i = 0 THEN <<s>>
        ELSE <<SubSeq(s, 1, i - 1), SubSeq(s, i + 1, Len(s))>>

\* l[1:-1]
Inner(l) == SubSeq(l, 2, Len(l) - 1)

RECURSIVE quote(_)
\* urllib.parse.quote(path): "/" and unreserved characters are kept, a
\* space becomes %20.
quote(s) ==
    IF s = << >> THEN << >>
    ELSE (IF Head(s) = " " THEN <<"%", "2", "0">> ELSE <<Head(s)>>) \o quote(Tail(s))

-----------------------------------------------------------------------------
(* Response bodies and the server's answers *)

\* 'OK - Started'
OkStarted ==
    <<"O", "K", " ", "-", " ", "S", "t", "a", "r", "t", "e", "d">>

\* 'OK - Stopped'
OkStopped ==
    <<"O", "K", " ", "-", " ", "S", "t", "o", "p", "p", "e", "d">>

\* 'OK - Reloaded'
OkReloaded ==
    <<"O", "K", " ", "-", " ", "R", "e", "l", "o", "a", "d", "e", "d">>

\* ' application at context path '
AtContextPath ==
    <<" ", "a", "p", "p", "l", "i", "c", "a", "t", "i", "o", "n", " ", "a",
      "t", " ", "c", "o", "n", "t", "e", "x", "t", " ", "p", "a", "t", "h",
      " ">>

\* 'FAIL - No context exists named /app\n'
FailBody ==
    <<"F", "A", "I", "L", " ", "-", " ", "N", "o", " ", "c", "o", "n", "t",
      "e", "x", "t", " ", "e", "x", "i", "s", "t", "s", " ", "n", "a", "m",
      "e", "d", " ", "/", "a", "p", "p", "\n">>

\* 'OK\n/app:running:2:app\n/root:stopped:0:ROOT\n\n'
ListBodySpec ==
    <<"O", "K", "\n", "/", "a", "p", "p", ":", "r", "u", "n", "n", "i", "n",
      "g", ":", "2", ":", "a", "p", "p", "\n", "/", "r", "o", "o", "t", ":",
      "s", "t", "o", "p", "p", "e", "d", ":", "0", ":", "R", "O", "O", "T",
      "\n", "\n">>

\* 'OK - Listed\n/app:running:2:app\n/a b:stopped:0:x\n'
ListBodyTomcat ==
    <<"O", "K", " ", "-", " ", "L", "i", "s", "t", "e", "d", "\n", "/", "a",
      "p", "p", ":", "r", "u", "n", "n", "i", "n", "g", ":", "2", ":", "a",
      "p", "p", "\n", "/", "a", " ", "b", ":", "s", "t", "o", "p", "p", "e",
      "d", ":", "0", ":", "x", "\n">>

\* 'OK\n/app:running\n/a b:stopped:0:x\n'
ListBodyShortRow ==
    <<"O", "K", "\n", "/", "a", "p", "p", ":", "r", "u", "n", "n", "i", "n",
      "g", "\n", "/", "a", " ", "b", ":", "s", "t", "o", "p", "p", "e", "d",
      ":", "0", ":", "x", "\n">>

\* 'OK\n/app:running:2:app\n/root:stopped:0:ROOT\n'
ListBodyPlain ==
    <<"O", "K", "\n", "/", "a", "p", "p", ":", "r", "u", "n", "n", "i", "n",
      "g", ":", "2", ":", "a", "p", "p", "\n", "/", "r", "o", "o", "t", ":",
      "s", "t", "o", "p", "p", "e", "d", ":", "0", ":", "R", "O", "O", "T",
      "\n">>

\* 'OK\nJVM Vendor: Oracle\nOS Name: Linux\n\n'
InfoBodySpec ==
    <<"O", "K", "\n", "J", "V", "M", " ", "V", "e", "n", "d", "o", "r", ":",
      " ", "O", "r", "a", "c", "l", "e", "\n", "O", "S", " ", "N", "a", "m",
      "e", ":", " ", "L", "i", "n", "u", "x", "\n", "\n">>

\* 'OK - Server info\nOS Name: Linux \nURL: http://x\nOS Name:  BSD\n'
InfoBodyTomcat ==
    <<"O", "K", " ", "-", " ", "S", "e", "r", "v", "e", "r", " ", "i", "n",
      "f", "o", "\n", "O", "S", " ", "N", "a", "m", "e", ":", " ", "L", "i",
      "n", "u", "x", " ", "\n", "U", "R", "L", ":", " ", "h", "t", "t", "p",
      ":", "/", "/", "x", "\n", "O", "S", " ", "N", "a", "m", "e", ":", " ",
      " ", "B", "S", "D", "\n">>

\* 'OK\nJVM Vendor: Oracle\nOS Name: Linux\n'
InfoBodyPlain ==
    <<"O", "K", "\n", "J", "V", "M", " ", "V", "e", "n", "d", "o", "r", ":",
      " ", "O", "r", "a", "c", "l", "e", "\n", "O", "S", " ", "N", "a", "m",
      "e", ":", " ", "L", "i", "n", "u", "x", "\n">>

\* Application paths given to the commands: '/app' and '/a b'.
Paths == {<<"/", "a", "p", "p">>, <<"/", "a", " ", "b">>}

Verbs == {OkStarted, OkStopped, OkReloaded}

\* What requests.get can produce: a response with a status code and a
\* text, or an exception (connection refused, timeout).
Response(status, text) == [kind |-> "response", status |-> status, text |-> text]
TransportError == [kind |-> "exception", status |-> 0, text |-> << >>]

ListResponses ==
    {Response(200, ListBodySpec), Response(200, ListBodyPlain),
     Response(200, ListBodyTomcat), Response(200, ListBodyShortRow),
     Response(404, ListBodyTomcat), TransportError}

InfoResponses ==
    {Response(200, InfoBodySpec), Response(200, InfoBodyPlain),
     Response(200, InfoBodyTomcat), Response(500, InfoBodyTomcat),
     TransportError}

CommandResponses(path) ==
    {Response(200, v \o AtContextPath \o path \o <<"\n">>) : v \in Verbs}
    \cup {Response(200, OkStarted \o AtContextPath \o path),
          Response(200, OkStarted \o AtContextPath \o quote(path) \o <<"\n">>),
          Response(500, OkStopped \o AtContextPath \o path \o <<"\n">>),
          Response(200, FailBody), Response(404, FailBody),
          TransportError}

-----------------------------------------------------------------------------
(* ApacheTomcatManager *)

\* What a keyword leaves behind: the manager's fields and whether it
\* returned (ret) or raised (err, msg); req is the request it sent, if any.
Outcome(conn, hdrs, cache, hp, ok, ret, err, msg, req) ==
    [_connection |-> conn, headers |-> hdrs, _cache |-> cache, heap |-> hp,
     ok |-> ok, ret |-> ret, err |-> err, msg |-> msg, req |-> req]

Raise(err, msg, req) ==
    Outcome(_connection, headers, _cache, heap, FALSE, None, err, msg, req)

Return(ret, req) ==
    Outcome(_connection, headers, _cache, heap, TRUE, ret, "", << >>, req)

\* ApacheTomcatManager.__init__
ManagerInit ==
    /\ _connection = PyNone
    /\ headers = << >>
    /\ _cache = ConnectionCache
    /\ heap = << >>

\* Mutant: the connection is registered without its alias.
connect_to_tomcat_no_alias(host, port, username, password, timeout, alias) ==
    LET p == PyInt(port)
        t == PyInt(timeout)
    IN  IF ~p.ok THEN Raise(p.exc, <<"int(port)">>, None)
        ELSE IF ~t.ok THEN Raise(t.exc, <<"int(timeout)">>, None)
        ELSE LET hdrs == [k \in DOMAIN headers \cup {"Content-Type"} |->
                             IF k = "Content-Type" THEN "text/plain" ELSE headers[k]]
                 obj  == RequestConnection(host, p.v, username, password, t.v)
                 hp   == Append(heap, obj)
                 conn == Ref(Len(hp))
                 r    == register(_cache, conn, NoneV)
             IN  Outcome(conn, hdrs, r.cache, hp, TRUE, Some(r.ret), "", << >>, None)

\* ApacheTomcatManager.connect_to_tomcat
connect_to_tomcat(host, port, username, password, timeout, alias) ==
    LET p == PyInt(port)
        t == PyInt(timeout)
    IN  IF ~p.ok THEN Raise(p.exc, <<"int(port)">>, None)
        ELSE IF ~t.ok THEN Raise(t.exc, <<"int(timeout)">>, None)
        ELSE LET hdrs == [k \in DOMAIN headers \cup {"Content-Type"} |->
                             IF k = "Content-Type" THEN "text/plain" ELSE headers[k]]
                 obj  == RequestConnection(host, p.v, username, password, t.v)
                 hp   == Append(heap, obj)
                 conn == Ref(Len(hp))
                 r    == register(_cache, conn, alias)
             IN  Outcome(conn, hdrs, r.cache, hp, TRUE, Some(r.ret), "", << >>, None)

\* Mutant: the argument is turned into text before the cache sees it.
switch_tomcat_connection_as_text(index_or_alias) ==
    LET old_index == current_index(_cache)
        text == IF index_or_alias.t = "int" /\ index_or_alias.v \in 0..9
                THEN StrV(<<CHOOSE c \in Digits : DigitVal(c) = index_or_alias.v>>)
                ELSE index_or_alias
        r == switch(_cache, text)
    IN  IF ~r.ok THEN Raise("RuntimeError", <<r.msg>>, None)
        ELSE Outcome(r.ret, headers, r.cache, heap, TRUE, old_index, "", << >>, None)

\* Mutant: the field is cleared before the cache is asked to switch.
switch_tomcat_connection_clears_first(index_or_alias) ==
    LET old_index == current_index(_cache)
        r == switch(_cache, index_or_alias)
    IN  IF ~r.ok
        THEN Outcome(PyNone, headers, _cache, heap, FALSE, None, "RuntimeError",
                     <<r.msg>>, None)
        ELSE Outcome(r.ret, headers, r.cache, heap, TRUE, old_index, "", << >>, None)

\* Mutant: old_index is read after the switch instead of before it.
switch_tomcat_connection_read_late(index_or_alias) ==
    LET r == switch(_cache, index_or_alias)
    IN  IF ~r.ok THEN Raise("RuntimeError", <<r.msg>>, None)
        ELSE Outcome(r.ret, headers, r.cache, heap, TRUE, current_index(r.cache),
                     "", << >>, None)

\* Mutant: the connection the cache returns is not stored in the field.
switch_tomcat_connection_unassigned(index_or_alias) ==
    LET old_index == current_index(_cache)
        r == switch(_cache, index_or_alias)
    IN  IF ~r.ok THEN Raise("RuntimeError", <<r.msg>>, None)
        ELSE Outcome(_connection, headers, r.cache, heap, TRUE, old_index,
                     "", << >>, None)

\* ApacheTomcatManager.switch_tomcat_connection
switch_tomcat_connection(index_or_alias) ==
    LET old_index == current_index(_cache)
        r == switch(_cache, index_or_alias)
    IN  IF ~r.ok THEN Raise("RuntimeError", <<r.msg>>, None)
        ELSE Outcome(r.ret, headers, r.cache, heap, TRUE, old_index, "", << >>, None)

\* disconnect_from_tomcat that leaves no connection current, in the field
\* and in the cache, and keeps the connections registered.
disconnect_from_tomcat_drops_current ==
    IF Truthy(_connection)
    THEN Outcome(NoConn, headers, [_cache EXCEPT !.current = NoConn], heap,
                 TRUE, None, "", << >>, None)
    ELSE Outcome(_connection, headers, _cache, heap, TRUE, None, "", << >>, None)

\* Mutant: the field is cleared, the cache is not told.
disconnect_from_tomcat_clears_field ==
    Outcome(PyNone, headers, _cache, heap, TRUE, None, "", << >>, None)

\* ApacheTomcatManager.disconnect_from_tomcat: RequestConnection.close()
\* does nothing, and neither the field nor the cache is touched.
disconnect_from_tomcat ==
    IF Truthy(_connection) THEN Return(None, None) ELSE Return(None, None)

\* Mutant: the field is cleared but the cache is never told to close.
close_all_tomcat_connections_field_only ==
    Outcome(PyNone, headers, _cache, heap, TRUE, None, "", << >>, None)

\* Mutant: the cache is closed but its answer is not stored in the field.
close_all_tomcat_connections_unassigned ==
    LET r == close_all(_cache)
    IN  Outcome(_connection, headers, r.cache, heap, TRUE, None, "", << >>, None)

\* ApacheTomcatManager.close_all_tomcat_connections
close_all_tomcat_connections ==
    LET r == close_all(_cache)
    IN  Outcome(r.ret, headers, r.cache, << >>, TRUE, None, "", << >>, None)

\* The guard and the attribute access every command starts with: None
\* raises the library's own Exception, the NoConnection sentinel raises
\* RuntimeError on `.url`; << >> when a connection object is there.
NoOpenConnection ==
    IF _connection = PyNone
    THEN <<"Exception", "No open connection to Apache Tomcat server.">>
    ELSE IF _connection = NoConn THEN <<"RuntimeError", "No open connection.">>
    ELSE << >>

\* requests.get(url, auth=..., headers=self.headers, timeout=...)
Request(suffix) ==
    Some([url |-> heap[_connection.id].url \o suffix,
          auth |-> heap[_connection.id].auth,
          headers |-> headers,
          timeout |-> heap[_connection.id].timeout])

\* Response.raise_for_status(): HTTPError for 4xx and 5xx.
raise_for_status(resp) == 400 <= resp.status /\ resp.status < 600

\* list that answers an empty list when no connection is open.
list_empty_when_closed(resp) ==
    LET e == NoOpenConnection
        req == Request(<<"/list">>)
    IN  IF e # << >> THEN Return(<< >>, None)
        ELSE IF resp.kind = "exception" THEN Raise("RequestException", << >>, req)
        ELSE IF raise_for_status(resp) THEN Raise("HTTPError", << >>, req)
        ELSE LET resp_list == Split(resp.text, "\n")
                 lines == Inner(resp_list)
             IN  Return([i \in 1..Len(lines) |-> Split(lines[i], ":")], req)

\* list with the slice resp_list[1:] in place of resp_list[1:-1].
list_keeps_last(resp) ==
    LET e == NoOpenConnection
        req == Request(<<"/list">>)
    IN  IF e # << >> THEN Raise(e[1], <<e[2]>>, None)
        ELSE IF resp.kind = "exception" THEN Raise("RequestException", << >>, req)
        ELSE IF raise_for_status(resp) THEN Raise("HTTPError", << >>, req)
        ELSE LET lines == Tail(Split(resp.text, "\n"))
             IN  Return([i \in 1..Len(lines) |-> Split(lines[i], ":")], req)

\* ApacheTomcatManager.list
list(resp) ==
    LET e == NoOpenConnection
        req == Request(<<"/list">>)
    IN  IF e # << >> THEN Raise(e[1], <<e[2]>>, None)
        ELSE IF resp.kind = "exception" THEN Raise("RequestException", << >>, req)
        ELSE IF raise_for_status(resp) THEN Raise("HTTPError", << >>, req)
        ELSE LET resp_list == Split(resp.text, "\n")
                 lines == Inner(resp_list)
             IN  Return([i \in 1..Len(lines) |-> Split(lines[i], ":")], req)

RECURSIVE FindStatus(_, _)
\* The loop of application_status: each row is unpacked into four names.
FindStatus(app_list, path) ==
    IF app_list = << >>
    THEN [ok |-> FALSE, ret |-> None, err |-> "Exception",
          msg |-> <<"Application with path ", path, " not found on Apache Tomcat">>]
    ELSE IF Len(Head(app_list)) # 4
    THEN [ok |-> FALSE, ret |-> None, err |-> "ValueError", msg |-> <<"unpack">>]
    ELSE IF Head(app_list)[1] = path
    THEN [ok |-> TRUE, ret |-> Head(app_list)[2], err |-> "", msg |-> << >>]
    ELSE FindStatus(Tail(app_list), path)

\* ApacheTomcatManager.application_status
application_status(path, resp) ==
    LET l == list(resp)
    IN  IF ~l.ok THEN l
        ELSE LET f == FindStatus(l.ret, path)
             IN  IF f.ok THEN Return(f.ret, l.req) ELSE Raise(f.err, f.msg, l.req)

RECURSIVE InfoLines_keeps_first(_, _)
\* The loop of serverinfo with serverinfo.setdefault(key, value.lstrip()).
InfoLines_keeps_first(lines, info) ==
    IF lines = << >> THEN [ok |-> TRUE, ret |-> info]
    ELSE LET kv == Split1(RStrip(Head(lines)), ":")
         IN  IF Len(kv) # 2 THEN [ok |-> FALSE, ret |-> info]
             ELSE InfoLines_keeps_first(Tail(lines),
                            [k \in DOMAIN info \cup {kv[1]} |->
                                IF k \in DOMAIN info THEN info[k]
                                ELSE LStrip(kv[2])])

RECURSIVE InfoLines(_, _)
\* The loop of serverinfo: key, value = line.rstrip().split(":", 1).
InfoLines(lines, info) ==
    IF lines = << >> THEN [ok |-> TRUE, ret |-> info]
    ELSE LET kv == Split1(RStrip(Head(lines)), ":")
         IN  IF Len(kv) # 2 THEN [ok |-> FALSE, ret |-> info]
             ELSE InfoLines(Tail(lines),
                            [k \in DOMAIN info \cup {kv[1]} |->
                                IF k = kv[1] THEN LStrip(kv[2]) ELSE info[k]])

\* serverinfo without the call of response.raise_for_status().
serverinfo_any_status(resp) ==
    LET e == NoOpenConnection
        req == Request(<<"/serverinfo">>)
    IN  IF e # << >> THEN Raise(e[1], <<e[2]>>, None)
        ELSE IF resp.kind = "exception" THEN Raise("RequestException", << >>, req)
        ELSE LET r == InfoLines(Inner(Split(resp.text, "\n")), << >>)
             IN  IF r.ok THEN Return(r.ret, req)
                 ELSE Raise("ValueError", <<"unpack">>, req)

\* ApacheTomcatManager.serverinfo
serverinfo(resp) ==
    LET e == NoOpenConnection
        req == Request(<<"/serverinfo">>)
    IN  IF e # << >> THEN Raise(e[1], <<e[2]>>, None)
        ELSE IF resp.kind = "exception" THEN Raise("RequestException", << >>, req)
        ELSE IF raise_for_status(resp) THEN Raise("HTTPError", << >>, req)
        ELSE LET r == InfoLines(Inner(Split(resp.text, "\n")), << >>)
             IN  IF r.ok THEN Return(r.ret, req)
                 ELSE Raise("ValueError", <<"unpack">>, req)

\* The body shared by application_stop, application_start and
\* application_reload: endpoint is the URL's verb, done the word of the
\* expected answer, complaint the first line of the error message.
Command(endpoint, done, complaint, path, resp) ==
    LET e == NoOpenConnection
        req == Request(<<"/", endpoint, "?path=">> \o quote(path))
    IN  IF e # << >> THEN Raise(e[1], <<e[2]>>, None)
        ELSE IF resp.kind = "exception" THEN Raise("RequestException", << >>, req)
        ELSE IF resp.text # done \o AtContextPath \o path \o <<"\n">>
        THEN Raise("Exception", <<complaint, resp.text>>, req)
        ELSE Return(None, req)

\* ApacheTomcatManager.application_stop
application_stop(path, resp) ==
    Command("stop", OkStopped, "Application  is not stopped:\n", path, resp)

\* ApacheTomcatManager.application_start
application_start(path, resp) ==
    Command("start", OkStarted, "Application  is not started:\n", path, resp)

\* Mutant: the expected text is the one copied from application_start.
application_reload_copied(path, resp) ==
    Command("reload", OkStarted, "Application  is not started:\n", path, resp)

\* ApacheTomcatManager.application_reload
application_reload(path, resp) ==
    Command("reload", OkReloaded, "Application  is not started:\n", path, resp)

-----------------------------------------------------------------------------
(* The keywords as steps of a test run *)

Hosts == {"h1", "h2"}

\* (port, timeout) pairs, each a Union[int, str]: 8080 and 15 as ints and
\* as strs, a port and a timeout that int() rejects.
NumberInputs ==
    {<<IntV(8080), IntV(15)>>,
     <<StrV(<<"8", "0", "8", "0">>), StrV(<<" ", "1", "5">>)>>,
     <<StrV(<<"8", "0", "a">>), IntV(15)>>,
     <<IntV(8080), StrV(<< >>)>>}

\* alias: None (the default) or a str; 'tmc1' and 'TMC 1' differ in case
\* and spacing only, '2' reads as a number.
AliasInputs ==
    {NoneV, StrV(<<"t", "m", "c", "1">>), StrV(<<"T", "M", "C", " ", "1">>),
     StrV(<<"2">>)}

\* index_or_alias: Union[int, str]
SwitchInputs ==
    {IntV(i) : i \in 0..(MaxConns + 1)}
    \cup (AliasInputs \ {NoneV})
    \cup {StrV(<<"1">>), StrV(<<"z">>)}

AppPath == <<"/", "a", "p", "p">>

AllCommandResponses == UNION {CommandResponses(p) : p \in Paths}

\* The answers drawn while the registry is explored: one that parses and
\* one that fails, per command.
ListProbes == {Response(200, ListBodyTomcat), Response(404, ListBodyTomcat)}
InfoProbes == {Response(200, InfoBodyTomcat), TransportError}
CommandProbes ==
    {Response(200, OkStarted \o AtContextPath \o AppPath \o <<"\n">>),
     Response(200, FailBody)}

NoResponse == [kind |-> "none", status |-> 0, text |-> << >>]

\* The position in log of the connection object conn, None when it is not
\* a registered connection.
LogIndex(conn) ==
    IF \E k \in 1..Len(log) : log[k].conn = conn
    THEN Some(CHOOSE k \in 1..Len(log) : log[k].conn = conn)
    ELSE None

\* One keyword call: the manager's fields become those of its outcome r;
\* last records the call, what it returned or raised, the response it got
\* and the current index and connection of the cache before the call.
Call(op, arg, resp, r) ==
    /\ _connection' = r._connection
    /\ headers' = r.headers
    /\ _cache' = r._cache
    /\ heap' = r.heap
    /\ last' = [op |-> op, arg |-> arg, ok |-> r.ok, ret |-> r.ret,
                err |-> r.err, msg |-> r.msg, req |-> r.req,
                resp |-> IF r.req = None THEN NoResponse ELSE resp,
                before |-> LogIndex(_cache.current),
                beforeConn |-> _cache.current]
    /\ UNCHANGED threads

\* The callers of the one manager object (ROBOT_LIBRARY_SCOPE is GLOBAL):
\* where each stands in the keyword it is running, with the keyword's
\* arguments and local variables, and whether the callers take turns,
\* a keyword being started only when no other is running.
Callers == {1, 2}

StartThreads(locking) ==
    [locking |-> locking,
     t |-> [i \in Callers |->
              [pc |-> "idle", arg |-> NoneV, host |-> "", conn |-> PyNone,
               old_index |-> None, calls |-> 0]]]

Init ==
    /\ ManagerInit
    /\ threads = StartThreads(TRUE)
    /\ log = << >>
    /\ afterCloseAll = FALSE
    /\ last = [op |-> "__init__", arg |-> NoneV, ok |-> TRUE, ret |-> None,
               err |-> "", msg |-> << >>, req |-> None, resp |-> NoResponse,
               before |-> None, beforeConn |-> NoConn]

\* log: the connections registered since construction or the last
\* close_all, in order, each with the alias and the settings it was given.
\* afterCloseAll: close_all has run and no connect has succeeded since.
Connect(hosts, numbers, aliases) ==
    \E host \in hosts, n \in numbers, alias \in aliases :
        LET r == connect_to_tomcat(host, n[1], "tomcat", "tomcat", n[2], alias)
        IN  /\ r.ok => Len(log) < MaxConns
            /\ Call("connect_to_tomcat", alias, NoResponse, r)
            /\ log' = IF r.ok
                      THEN Append(log, [conn |-> r._connection, alias |-> alias,
                                        host |-> host, port |-> PyInt(n[1]).v,
                                        auth |-> <<"tomcat", "tomcat">>,
                                        timeout |-> PyInt(n[2]).v])
                      ELSE log
            /\ afterCloseAll' = (afterCloseAll /\ ~r.ok)

Switch ==
    \E x \in SwitchInputs :
        /\ Call("switch_tomcat_connection", x, NoResponse, switch_tomcat_connection(x))
        /\ UNCHANGED <<log, afterCloseAll>>

Disconnect ==
    /\ Call("disconnect_from_tomcat", NoneV, NoResponse, disconnect_from_tomcat)
    /\ UNCHANGED <<log, afterCloseAll>>

CloseAll ==
    /\ Call("close_all_tomcat_connections", NoneV, NoResponse,
            close_all_tomcat_connections)
    /\ log' = << >>
    /\ afterCloseAll' = TRUE

List(responses) ==
    \E resp \in responses :
        /\ Call("list", NoneV, resp, list(resp))
        /\ UNCHANGED <<log, afterCloseAll>>

ApplicationStatus(paths, responses) ==
    \E path \in paths, resp \in responses :
        /\ Call("application_status", StrV(path), resp, application_status(path, resp))
        /\ UNCHANGED <<log, afterCloseAll>>

Serverinfo(responses) ==
    \E resp \in responses :
        /\ Call("serverinfo", NoneV, resp, serverinfo(resp))
        /\ UNCHANGED <<log, afterCloseAll>>

ApplicationStop(paths, responses) ==
    \E path \in paths, resp \in responses :
        /\ Call("application_stop", StrV(path), resp, application_stop(path, resp))
        /\ UNCHANGED <<log, afterCloseAll>>

ApplicationStart(paths, responses) ==
    \E path \in paths, resp \in responses :
        /\ Call("application_start", StrV(path), resp, application_start(path, resp))
        /\ UNCHANGED <<log, afterCloseAll>>

ApplicationReload(paths, responses) ==
    \E path \in paths, resp \in responses :
        /\ Call("application_reload", StrV(path), resp, application_reload(path, resp))
        /\ UNCHANGED <<log, afterCloseAll>>

\* The registry explored in full: every connect, switch and close, with
\* each command answered by a probe.
Next ==
    \/ Connect(Hosts, NumberInputs, AliasInputs)
    \/ Switch
    \/ Disconnect
    \/ CloseAll
    \/ List(ListProbes)
    \/ ApplicationStatus({AppPath}, ListProbes)
    \/ Serverinfo(InfoProbes)
    \/ ApplicationStop({AppPath}, CommandProbes)
    \/ ApplicationStart({AppPath}, CommandProbes)
    \/ ApplicationReload({AppPath}, CommandProbes)

Spec == Init /\ [][Next]_vars

\* The command client explored in full: every path and every answer of
\* the server, over connections opened with the default settings.
NextClient ==
    \/ Connect({"h1"}, {<<IntV(8080), IntV(15)>>}, {NoneV})
    \/ Switch
    \/ Disconnect
    \/ CloseAll
    \/ List(ListResponses)
    \/ ApplicationStatus(Paths, ListResponses)
    \/ Serverinfo(InfoResponses)
    \/ ApplicationStop(Paths, AllCommandResponses)
    \/ ApplicationStart(Paths, AllCommandResponses)
    \/ ApplicationReload(Paths, AllCommandResponses)

SpecClient == Init /\ [][NextClient]_vars

-----------------------------------------------------------------------------
(* Properties *)

Commands ==
    {"list", "application_status", "serverinfo", "application_stop",
     "application_start", "application_reload"}

\* The two errors that say no connection is open: the manager's own
\* Exception and the RuntimeError of the cache's NoConnection sentinel.
NoOpenConnectionError ==
    \/ last.err = "Exception"
       /\ last.msg = <<"No open connection to Apache Tomcat server.">>
    \/ last.err = "RuntimeError" /\ last.msg = <<"No open connection.">>

\* Two aliases are the same name: equal up to case and spaces.
SameAlias(a, b) == a.t = "str" /\ b.t = "str" /\ Normalize(a.v) = Normalize(b.v)

\* The registrations an identifier x names: those made under x as an alias.
NamedBy(x) == {k \in 1..Len(log) : SameAlias(log[k].alias, x)}

\* No connect after the k-th has passed the k-th connection's alias again.
NotRebound(k) == \A j \in (k + 1)..Len(log) : ~SameAlias(log[j].alias, log[k].alias)

\* The registration an identifier should select: the latest one made under
\* it as an alias, else the one with that number; 0 when there is none.
ExpectedIndex(x) ==
    IF NamedBy(x) # {} THEN CHOOSE k \in NamedBy(x) : \A j \in NamedBy(x) : j <= k
    ELSE IF PyInt(x).ok /\ PyInt(x).v \in 1..Len(log) THEN PyInt(x).v
    ELSE 0

Connected == last.op = "connect_to_tomcat" /\ last.ok
Switched == last.op = "switch_tomcat_connection" /\ last.ok

\* C1: every connect_to_tomcat that returns, returns the number of connects
\* that have returned since construction or the last close_all: 1, 2, 3, ...
\* whatever switches, disconnects and commands came between, and from 1
\* again after a close_all.
C1_ConnectReturnsNextIndex ==
    Connected => last.ret = Some(Len(log)) /\ Len(log) >= 1

\* C1 witness: a second connect since the last reset returned index 2.
C1_Witness ==
    Connected /\ Len(log) = 2 /\ last.ret = Some(2)

\* C2: between a close_all and the next connect that succeeds, every
\* command fails with a no-open-connection error and sends no request; and
\* that next connect returns index 1.
C2_AfterCloseAll ==
    /\ [](afterCloseAll /\ last.op \in Commands
            => ~last.ok /\ NoOpenConnectionError /\ last.req = None)
    /\ [][afterCloseAll /\ last'.op = "connect_to_tomcat" /\ last'.ok
            => last'.ret = Some(1)]_vars

\* C2 witness: a command was called after close_all and failed.
C2_Witness ==
    afterCloseAll /\ last.op = "application_start" /\ ~last.ok

\* C3 (as claimed): after disconnect_from_tomcat is called while a
\* connection is current, no connection is current: the cache has no current
\* index and the manager holds no connection object.
C3_DisconnectClearsCurrent ==
    last.op = "disconnect_from_tomcat" /\ last.beforeConn # NoConn
        => current_index(_cache) = None /\ ~Truthy(_connection)

\* C4: a switch_tomcat_connection(x) that succeeds makes the connection x
\* names (the latest registered under alias x, else the x-th) current, in
\* the cache and in the manager, and returns the index that was current
\* before the call.
C4_SwitchSelectsAndReturnsPrevious ==
    Switched =>
        /\ ExpectedIndex(last.arg) # 0
        /\ _cache.current = log[ExpectedIndex(last.arg)].conn
        /\ _connection = log[ExpectedIndex(last.arg)].conn
        /\ last.ret = last.before

\* C4 witness: a switch from connection 2 to connection 1 returned 2.
C4_Witness ==
    Switched /\ last.ret = Some(2) /\ LogIndex(_cache.current) = Some(1)

\* C5: when switch_tomcat_connection(x) has succeeded and returned P, a
\* switch_tomcat_connection(P) called next succeeds, makes current the
\* connection that was current before the first switch, and returns the
\* index x resolved to.
C5_SwitchRoundTrip ==
    [][(/\ Switched
        /\ last.ret # None
        /\ last'.op = "switch_tomcat_connection"
        /\ last'.arg.t = "int"
        /\ last'.arg.v = last.ret[1])
       => (/\ last'.ok
           /\ _cache'.current = last.beforeConn
           /\ _connection' = last.beforeConn
           /\ last'.ret = LogIndex(_cache.current))]_vars

\* C5 witness: the second switch of a round trip 2 -> 1 -> 2 has returned.
C5_Witness ==
    /\ Switched
    /\ last.arg = IntV(2)
    /\ last.ret = Some(1)
    /\ last.before = Some(1)
    /\ LogIndex(_cache.current) = Some(2)

\* The manager's connection object has the settings the k-th connect gave.
HasSettingsOf(k) ==
    /\ Truthy(_connection)
    /\ heap[_connection.id].host = log[k].host
    /\ heap[_connection.id].port = log[k].port
    /\ heap[_connection.id].auth = log[k].auth
    /\ heap[_connection.id].timeout = log[k].timeout

SameArg(a, b) == a.t = b.t /\ a.v = b.v

\* C6 (as claimed): for every connection registered with an alias a as the
\* k-th, switch_tomcat_connection(a) and switch_tomcat_connection(k) both
\* succeed and leave a connection with the k-th connect's settings current.
C6_AliasAndIndexSelectSame ==
    \A k \in 1..Len(log) :
        (/\ last.op = "switch_tomcat_connection"
         /\ log[k].alias.t = "str"
         /\ (SameArg(last.arg, log[k].alias) \/ SameArg(last.arg, IntV(k))))
        => last.ok /\ HasSettingsOf(k)

\* C6 (amended): the same, for every connection whose alias no later
\* connect_to_tomcat has passed again (equal up to case and spaces): both
\* switches select that very connection.
C6_AliasNotReboundAndIndexSelectSame ==
    \A k \in 1..Len(log) :
        (/\ last.op = "switch_tomcat_connection"
         /\ log[k].alias.t = "str"
         /\ NotRebound(k)
         /\ (SameArg(last.arg, log[k].alias) \/ SameArg(last.arg, IntV(k))))
        => last.ok /\ _connection = log[k].conn /\ HasSettingsOf(k)

\* C6 witness: after a later connect to another host, a switch by the first
\* connection's alias has selected the first connection.
C6_Witness ==
    /\ Switched
    /\ Len(log) = 2
    /\ log[1].host # log[2].host
    /\ last.arg = log[1].alias
    /\ last.before = Some(2)
    /\ _connection = log[1].conn

\* C7: a switch_tomcat_connection(x) whose x names no registered connection
\* raises the cache's RuntimeError, and a switch that raises leaves the
\* manager's connection, the cache (current, connections, aliases), the
\* connection objects and the headers as they were.
C7_FailedSwitchChangesNothing ==
    /\ [](last.op = "switch_tomcat_connection" /\ ExpectedIndex(last.arg) = 0
            => ~last.ok /\ last.err = "RuntimeError")
    /\ [][last'.op = "switch_tomcat_connection" /\ ~last'.ok
            => UNCHANGED <<_connection, _cache, heap, headers>>]_vars

\* C7 witness: a switch to an unknown alias failed while connection 2 of 2
\* was current.
C7_Witness ==
    /\ last.op = "switch_tomcat_connection"
    /\ ~last.ok
    /\ last.arg = StrV(<<"z">>)
    /\ Len(log) = 2
    /\ _connection = log[2].conn

\* C8 (as claimed): the alias given to the k-th connect resolves to index k
\* for as long as the connection is registered, whatever connects follow.
C8_AliasKeepsIndex ==
    \A k \in 1..Len(log) :
        log[k].alias.t = "str"
        => resolve_alias_or_index(_cache, log[k].alias).ok
           /\ resolve_alias_or_index(_cache, log[k].alias).index = k

\* C8 (amended): an alias resolves to one index, that of the latest connect
\* that passed it (equal up to case and spaces); so the alias of the k-th
\* connect resolves to k until a later connect passes it again or close_all
\* runs.
C8_AliasResolvesToLatest ==
    \A k \in 1..Len(log) :
        log[k].alias.t = "str"
        => /\ resolve_alias_or_index(_cache, log[k].alias).ok
           /\ resolve_alias_or_index(_cache, log[k].alias).index
                = ExpectedIndex(log[k].alias)
           /\ NotRebound(k)
                => resolve_alias_or_index(_cache, log[k].alias).index = k

\* C8 witness: two connections with different aliases, the first alias
\* still bound after the second connect.
C8_Witness ==
    /\ Connected
    /\ Len(log) = 2
    /\ log[1].alias.t = "str"
    /\ log[2].alias.t = "str"
    /\ NotRebound(1)

\* C9: the manager's connection is the cache's current one, and both are
\* absent together; a connect that returns leaves the new connection
\* current; a request is sent to the URL, with the credentials and timeout,
\* of the current registration.
C9_ClientUsesCurrent ==
    /\ ~Truthy(_connection) <=> _cache.current = NoConn
    /\ Truthy(_connection)
         => _connection = _cache.current /\ LogIndex(_connection) # None
    /\ Connected => _connection = log[Len(log)].conn
    /\ last.req # None
         => LET k == LogIndex(_cache.current)[1]
            IN  /\ SubSeq(last.req[1].url, 1, 5)
                     = <<"http://", log[k].host, ":", log[k].port, "/manager/text">>
                /\ last.req[1].auth = log[k].auth
                /\ last.req[1].timeout = log[k].timeout

\* C9 witness: a request went out on the first of two connections, to
\* which a switch had returned.
C9_Witness ==
    /\ last.req # None
    /\ Len(log) = 2
    /\ log[1].host # log[2].host
    /\ _connection = log[1].conn

StartStopReload == {"application_start", "application_stop", "application_reload"}

\* The one answer a command accepts: 'OK - <Verb> application at context
\* path <path>' and a newline, the path as given.
ExpectedAnswer(op, path) ==
    (CASE op = "application_start" -> OkStarted
       [] op = "application_stop" -> OkStopped
       [] op = "application_reload" -> OkReloaded)
    \o AtContextPath \o path \o <<"\n">>

\* C10: when application_start, application_stop or application_reload gets
\* a response, it returns if and only if the text is exactly the expected
\* answer for that command and path; otherwise it raises an Exception whose
\* message ends with the text received.
C10_CommandSucceedsIffExactAnswer ==
    last.op \in StartStopReload /\ last.resp.kind = "response"
    => /\ last.ok <=> last.resp.text = ExpectedAnswer(last.op, last.arg.v)
       /\ ~last.ok => /\ last.err = "Exception"
                      /\ Len(last.msg) = 2
                      /\ last.msg[2] = last.resp.text

\* C10 witness: application_reload returned for a path with a space in it.
C10_Witness ==
    /\ last.op = "application_reload"
    /\ last.ok
    /\ last.arg = StrV(<<"/", "a", " ", "b">>)

\* C10 witness of the other direction: application_stop raised on a 200
\* response carrying the answer of application_start.
C10_RejectWitness ==
    /\ last.op = "application_stop"
    /\ ~last.ok
    /\ last.resp.status = 200
    /\ last.resp.text = ExpectedAnswer("application_start", last.arg.v)

-----------------------------------------------------------------------------
(* Parsing of the manager's answers *)

\* How many times the character c occurs in s.
Count(s, c) == Cardinality({i \in 1..Len(s) : s[i] = c})

RECURSIVE Join(_, _)
\* sep.join(pieces)
Join(pieces, sep) ==
    IF pieces = << >> THEN << >>
    ELSE IF Len(pieces) = 1 THEN pieces[1]
    ELSE pieces[1] \o <<sep>> \o Join(Tail(pieces), sep)

\* The position of the k-th occurrence of c in s.
Nth(s, c, k) ==
    CHOOSE i \in 1..Len(s) : s[i] = c /\ Count(SubSeq(s, 1, i), c) = k

\* [['/app', 'running', '2', 'app'], ['/root', 'stopped', '0', 'ROOT']]
TwoRows ==
    <<<<<<"/", "a", "p", "p">>, <<"r", "u", "n", "n", "i", "n", "g">>,
        <<"2">>, <<"a", "p", "p">>>>,
      <<<<"/", "r", "o", "o", "t">>, <<"s", "t", "o", "p", "p", "e", "d">>,
        <<"0">>, <<"R", "O", "O", "T">>>>>>

\* C11 as stated: a successful list() returns rows of exactly four fields,
\* and for the body 'OK\n/app:running:2:app\n/root:stopped:0:ROOT\n\n'
\* exactly the two application rows.
C11_ListRowsOfFourFields ==
    (last.op = "list" /\ last.ok) =>
        /\ \A i \in 1..Len(last.ret) : Len(last.ret[i]) = 4
        /\ last.resp.text = ListBodySpec => last.ret = TwoRows

\* C11 amended: a successful list() returns one row per line between the
\* first and the last newline of the body, in order, each row being that
\* line cut at every colon, whatever the number of fields; the body that
\* ends in one newline gives exactly the two application rows, the body
\* that ends in a blank line gives them followed by the row [''].
C11_ListRowsAreInnerLines ==
    (last.op = "list" /\ last.ok) =>
        LET text == last.resp.text
            rows == last.ret
            n == Count(text, "\n")
        IN  /\ Len(rows) = IF n >= 1 THEN n - 1 ELSE 0
            /\ \A i \in 1..Len(rows) :
                  /\ Len(rows[i]) >= 1
                  /\ \A j \in 1..Len(rows[i]) :
                        Count(rows[i][j], ":") = 0 /\ Count(rows[i][j], "\n") = 0
            /\ n >= 2 =>
                  Join([i \in 1..Len(rows) |-> Join(rows[i], ":")], "\n")
                    = SubSeq(text, Nth(text, "\n", 1) + 1, Nth(text, "\n", n) - 1)
            /\ text = ListBodyPlain => rows = TwoRows
            /\ text = ListBodySpec => rows = TwoRows \o << << << >> >> >>

\* list() has answered the body that ends in a blank line with three rows.
C11_Witness ==
    /\ last.op = "list" /\ last.ok
    /\ last.resp.text = ListBodySpec
    /\ Len(last.ret) = 3
    /\ last.ret[3] = << << >> >>

\* The i-th line of the text after its first one: what lies between the
\* i-th newline and the next.
LineAt(text, i) ==
    SubSeq(text, Nth(text, "\n", i) + 1, Nth(text, "\n", i + 1) - 1)

\* What a line with a colon gives: the text before the first colon, and
\* the text after it without the blanks around it.
KeyOf(line) == SubSeq(line, 1, Nth(line, ":", 1) - 1)
ValueOf(line) == LStrip(RStrip(SubSeq(line, Nth(line, ":", 1) + 1, Len(line))))

\* {'JVM Vendor': 'Oracle', 'OS Name': 'Linux'}
SpecInfo ==
    (<<"J", "V", "M", " ", "V", "e", "n", "d", "o", "r">>
        :> <<"O", "r", "a", "c", "l", "e">>)
    @@ (<<"O", "S", " ", "N", "a", "m", "e">> :> <<"L", "i", "n", "u", "x">>)

\* {'OS Name': 'BSD', 'URL': 'http://x'}
TomcatInfo ==
    (<<"O", "S", " ", "N", "a", "m", "e">> :> <<"B", "S", "D">>)
    @@ (<<"U", "R", "L">> :> <<"h", "t", "t", "p", ":", "/", "/", "x">>)

\* C12 as stated: for the body 'OK\nJVM Vendor: Oracle\nOS Name: Linux\n\n'
\* serverinfo() returns {'JVM Vendor': 'Oracle', 'OS Name': 'Linux'}
\* without raising an error.
C12_ServerinfoSpecBody ==
    (/\ last.op = "serverinfo"
     /\ last.resp.kind = "response" /\ last.resp.status = 200
     /\ last.resp.text = InfoBodySpec) =>
        last.ok /\ last.ret = SpecInfo

\* C12 amended: on an answer whose status is no error, serverinfo()
\* succeeds exactly when every line between the first and the last newline
\* has a colon, and fails with ValueError otherwise (a blank line before
\* the last newline included); on success the keys are the texts before
\* the first colon of these lines and each key has the trimmed rest of the
\* last line that starts with it.
C12_ServerinfoInnerLines ==
    (/\ last.op = "serverinfo"
     /\ last.resp.kind = "response" /\ ~raise_for_status(last.resp)) =>
        LET text == last.resp.text
            n == Count(text, "\n")
            inner == 1..(n - 1)
        IN  /\ last.ok <=> \A i \in inner : Count(LineAt(text, i), ":") >= 1
            /\ ~last.ok => last.err = "ValueError"
            /\ last.ok =>
                  /\ DOMAIN last.ret = {KeyOf(LineAt(text, i)) : i \in inner}
                  /\ \A i \in inner :
                        (\A j \in inner :
                            j > i => KeyOf(LineAt(text, j)) # KeyOf(LineAt(text, i)))
                        => last.ret[KeyOf(LineAt(text, i))] = ValueOf(LineAt(text, i))
            /\ text = InfoBodyPlain => last.ok /\ last.ret = SpecInfo
            /\ text = InfoBodyTomcat => last.ok /\ last.ret = TomcatInfo
            /\ text = InfoBodySpec => ~last.ok

\* serverinfo() has failed on the body that ends in a blank line.
C12_Witness ==
    /\ last.op = "serverinfo" /\ ~last.ok
    /\ last.err = "ValueError"
    /\ last.resp.kind = "response" /\ last.resp.status = 200
    /\ last.resp.text = InfoBodySpec

\* The rows of a list body: its lines between the first and the last
\* newline, cut at the colons.
RowsOf(text) ==
    [i \in 1..(Count(text, "\n") - 1) |-> Split(LineAt(text, i), ":")]

\* C13: whenever the list request succeeds, application_status(path)
\* returns the status of the first row whose path is the given one, and
\* raises the application-not-found error when no row has that path,
\* whatever the number of fields of the rows.
C13_StatusOrNotFound ==
    (/\ last.op = "application_status"
     /\ last.resp.kind = "response" /\ ~raise_for_status(last.resp)) =>
        LET rows == RowsOf(last.resp.text)
            hits == {i \in 1..Len(rows) : rows[i][1] = last.arg.v}
        IN  IF hits = {}
            THEN /\ ~last.ok
                 /\ last.err = "Exception"
                 /\ last.msg = <<"Application with path ", last.arg.v,
                                 " not found on Apache Tomcat">>
            ELSE LET first == CHOOSE i \in hits : \A j \in hits : i <= j
                 IN  /\ last.ok
                     /\ Len(rows[first]) >= 2
                     /\ last.ret = rows[first][2]

-----------------------------------------------------------------------------
(* The registry, continued *)

\* C14: the current index is always none or the number of a registered
\* connection, and once disconnect_from_tomcat has closed the current
\* connection, number i registered under alias a, a switch to i or to a
\* fails.
C14_ClosedConnectionIsNotFound ==
    /\ [](\/ current_index(_cache) = None
          \/ current_index(_cache)[1] \in 1..Len(_cache._connections))
    /\ [][(/\ last.op = "disconnect_from_tomcat" /\ last.before # None
           /\ last'.op = "switch_tomcat_connection"
           /\ \/ last'.arg.t = "int" /\ last'.arg.v = last.before[1]
              \/ SameAlias(last'.arg, log[last.before[1]].alias))
          => ~last'.ok]_vars

\* C15: close_all_tomcat_connections leaves the cache as it was built (no
\* connection, no alias, no current one), so until the next connect every
\* switch fails, by a number or by an alias that was valid before; and the
\* aliases the cache knows are always those of the connects made since the
\* last close_all, each bound to the latest connect that passed it.
C15_CloseAllResetsRegistry ==
    /\ afterCloseAll =>
          /\ _cache = ConnectionCache
          /\ ~Truthy(_connection)
          /\ \A x \in SwitchInputs : ~switch_tomcat_connection(x).ok
          /\ last.op = "switch_tomcat_connection" =>
                ~last.ok /\ last.err = "RuntimeError"
    /\ Len(_cache._connections) = Len(log)
    /\ \A k \in 1..Len(log) : _cache._connections[k] = log[k].conn
    /\ \A key \in DOMAIN _cache._aliases :
          LET named == {k \in 1..Len(log) :
                           log[k].alias.t = "str" /\ Normalize(log[k].alias.v) = key}
          IN  /\ named # {}
              /\ _cache._aliases[key] \in named
              /\ \A k \in named : k <= _cache._aliases[key]

\* C15 witness: after a connect had succeeded and close_all was called, a
\* switch to index 1 failed.
C15_Witness ==
    /\ afterCloseAll
    /\ headers # << >>
    /\ last.op = "switch_tomcat_connection" /\ ~last.ok
    /\ last.arg.t = "int" /\ last.arg.v = 1

\* C16: as long as no connect_to_tomcat has succeeded (the headers are
\* still empty), each of the six commands raises a no-open-connection error
\* without sending a request, and leaves the manager's connection, the
\* cache, the connection objects and the headers as they were.
C16_CommandsNeedAConnection ==
    /\ [](headers = << >> /\ last.op \in Commands
            => ~last.ok /\ NoOpenConnectionError /\ last.req = None)
    /\ [](headers = << >>
            => _cache = ConnectionCache /\ heap = << >> /\ ~Truthy(_connection))
    /\ [][headers = << >> /\ last'.op \in Commands
            => UNCHANGED <<_connection, _cache, heap, headers>>]_vars

\* C16 witness: serverinfo was called on a manager that was never
\* connected and raised the manager's own error.
C16_Witness ==
    /\ headers = << >>
    /\ _connection = PyNone
    /\ last.op = "serverinfo" /\ ~last.ok
    /\ last.err = "Exception"
    /\ last.msg = <<"No open connection to Apache Tomcat server.">>
    /\ last.req = None

-----------------------------------------------------------------------------
(* The HTTP client, continued *)

\* The commands that read the manager's answer as data.
Readers == {"list", "application_status", "serverinfo"}

\* C17 as stated: every command sends one request, and for all six an
\* answer whose status is not 2xx makes the call fail, whatever its body.
C17_NonSuccessStatusFails ==
    last.op \in Commands =>
        /\ Len(last.req) <= 1
        /\ (/\ last.resp.kind = "response"
            /\ ~(200 <= last.resp.status /\ last.resp.status < 300))
           => ~last.ok

\* C17 amended: a command called with a connection open sends exactly one
\* request and none otherwise; a request that raises makes each of the six
\* fail; a 4xx or 5xx status makes list, application_status and serverinfo
\* fail with HTTPError whatever the body; application_start, _stop and
\* _reload do not look at the status, they return on an error status too
\* when the body is the expected answer and fail when it is not.
C17_OneRequestStatusCheckedByReaders ==
    last.op \in Commands =>
        /\ Len(last.req) = IF Truthy(_connection) THEN 1 ELSE 0
        /\ last.req = None => last.resp = NoResponse /\ ~last.ok
        /\ last.resp.kind = "exception" =>
              ~last.ok /\ last.err = "RequestException"
        /\ (last.resp.kind = "response" /\ raise_for_status(last.resp)) =>
              IF last.op \in Readers
              THEN ~last.ok /\ last.err = "HTTPError"
              ELSE last.ok <=> last.resp.text = ExpectedAnswer(last.op, last.arg.v)

\* C17 witness: application_stop returned on an answer of status 500.
C17_Witness ==
    /\ last.op = "application_stop" /\ last.ok
    /\ last.resp.kind = "response" /\ last.resp.status = 500
    /\ Len(last.req) = 1

\* C18: switch_tomcat_connection looks its argument up among the aliases
\* before it reads it as a number: a text that is an alias selects the
\* connection registered under it, also when the text is the number of
\* another registered connection, which is then not selected.
C18_AliasBeforeNumber ==
    (/\ last.op = "switch_tomcat_connection"
     /\ last.arg.t = "str"
     /\ NamedBy(last.arg) # {}) =>
        LET i == CHOOSE k \in NamedBy(last.arg) : \A j \in NamedBy(last.arg) : j <= k
            n == PyInt(last.arg)
        IN  /\ last.ok
            /\ _cache.current = log[i].conn
            /\ _connection = log[i].conn
            /\ (n.ok /\ n.v \in 1..Len(log) /\ n.v # i) =>
                  /\ _connection # log[n.v].conn
                  /\ current_index(_cache) # Some(n.v)

\* C18 witness: connection 1 is registered under the alias '2', connection
\* 2 under another or none; a switch to '2' while connection 2 was current
\* has selected connection 1.
C18_Witness ==
    /\ Switched
    /\ last.arg.t = "str" /\ last.arg.v = <<"2">>
    /\ Len(log) = 2
    /\ SameAlias(log[1].alias, last.arg)
    /\ ~SameAlias(log[2].alias, last.arg)
    /\ last.before = Some(2)
    /\ _connection = log[1].conn
    /\ current_index(_cache) = Some(1)

\* C20: whenever switch_tomcat_connection succeeds a connection was current
\* before the call, so the previous index it returns is a number from 1 to
\* the number of registered connections, never the value that stands for
\* no connection.
C20_SwitchReturnsAnIndex ==
    Switched =>
        /\ Truthy(last.beforeConn)
        /\ last.ret # None
        /\ last.ret[1] \in 1..Len(_cache._connections)
        /\ _cache._connections[last.ret[1]] = last.beforeConn

\* C20 witness: with two connections registered, a switch made while the
\* first was current has returned 1.
C20_Witness ==
    /\ Switched
    /\ Len(_cache._connections) = 2
    /\ last.beforeConn = _cache._connections[1]
    /\ last.ret = Some(1)

-----------------------------------------------------------------------------
(* Concurrent callers of the one manager object *)

\* What the concurrent callers pass: an alias each, and the host of each.
ThreadAliases == {StrV(<<"t", "m", "c", "1">>), StrV(<<"2">>)}
ThreadSwitchInputs == {IntV(1), IntV(2), StrV(<<"t", "m", "c", "1">>)}
HostOf(i) == IF i = 1 THEN "h1" ELSE "h2"

\* Caller i may start a keyword: it runs none, and when the callers take
\* turns no other caller runs one.
CanBegin(i) ==
    /\ threads.t[i].pc = "idle"
    /\ threads.t[i].calls < MaxCalls
    /\ threads.locking => \A j \in Callers : threads.t[j].pc = "idle"

\* What a finished call leaves in `last`.
Finished(op, arg, ok, ret, msg) ==
    [op |-> op, arg |-> arg, ok |-> ok, ret |-> ret,
     err |-> IF ok THEN "" ELSE "RuntimeError", msg |-> msg, req |-> None,
     resp |-> NoResponse, before |-> LogIndex(_cache.current),
     beforeConn |-> _cache.current]

\* connect_to_tomcat up to the logger call: port and timeout are converted
\* (local variables) and the Content-Type header is set.
ThreadConnectBegin(i) ==
    \E alias \in ThreadAliases :
        /\ CanBegin(i)
        /\ Len(log) + Cardinality({j \in Callers :
                                     threads.t[j].pc \in {"c107", "c108"}}) < MaxConns
        /\ headers' = [k \in DOMAIN headers \cup {"Content-Type"} |->
                          IF k = "Content-Type" THEN "text/plain" ELSE headers[k]]
        /\ threads' = [threads EXCEPT !.t[i].pc = "c107", !.t[i].arg = alias,
                                      !.t[i].host = HostOf(i)]
        /\ UNCHANGED <<_connection, _cache, heap, log, afterCloseAll, last>>

\* Line 107 with the object kept in a local variable only.
ThreadConnect107_local_only(i) ==
    /\ threads.t[i].pc = "c107"
    /\ heap' = Append(heap, RequestConnection(threads.t[i].host, PyInt(IntV(8080)).v,
                                              "tomcat", "tomcat", PyInt(IntV(15)).v))
    /\ threads' = [threads EXCEPT !.t[i].pc = "c108", !.t[i].conn = Ref(Len(heap'))]
    /\ UNCHANGED <<_connection, headers, _cache, log, afterCloseAll, last>>

\* self._connection = RequestConnection(host, port, username, password, timeout)
ThreadConnect107(i) ==
    /\ threads.t[i].pc = "c107"
    /\ heap' = Append(heap, RequestConnection(threads.t[i].host, PyInt(IntV(8080)).v,
                                              "tomcat", "tomcat", PyInt(IntV(15)).v))
    /\ _connection' = Ref(Len(heap'))
    /\ threads' = [threads EXCEPT !.t[i].pc = "c108", !.t[i].conn = Ref(Len(heap'))]
    /\ UNCHANGED <<headers, _cache, log, afterCloseAll, last>>

\* return self._cache.register(self._connection, alias): the field is read
\* again, whatever it holds by now is registered. The log keeps the object
\* this call has created and the alias it was given.
ThreadConnect108(i) ==
    LET r == register(_cache, _connection, threads.t[i].arg)
    IN  /\ threads.t[i].pc = "c108"
        /\ _cache' = r.cache
        /\ log' = Append(log, [conn |-> threads.t[i].conn, alias |-> threads.t[i].arg,
                               host |-> threads.t[i].host,
                               port |-> PyInt(IntV(8080)).v,
                               auth |-> <<"tomcat", "tomcat">>,
                               timeout |-> PyInt(IntV(15)).v])
        /\ last' = Finished("connect_to_tomcat", threads.t[i].arg, TRUE,
                            Some(r.ret), << >>)
        /\ threads' = [threads EXCEPT !.t[i].pc = "idle",
                                      !.t[i].calls = threads.t[i].calls + 1]
        /\ UNCHANGED <<_connection, headers, heap, afterCloseAll>>

\* old_index = self._cache.current_index
ThreadSwitch130(i) ==
    \E x \in ThreadSwitchInputs :
        /\ CanBegin(i)
        /\ threads' = [threads EXCEPT !.t[i].pc = "s131", !.t[i].arg = x,
                                      !.t[i].old_index = current_index(_cache)]
        /\ UNCHANGED <<_connection, headers, _cache, heap, log, afterCloseAll, last>>

\* self._connection = self._cache.switch(index_or_alias); return old_index
ThreadSwitch131(i) ==
    LET r == switch(_cache, threads.t[i].arg)
    IN  /\ threads.t[i].pc = "s131"
        /\ _cache' = r.cache
        /\ _connection' = IF r.ok THEN r.ret ELSE _connection
        /\ last' = Finished("switch_tomcat_connection", threads.t[i].arg, r.ok,
                            IF r.ok THEN threads.t[i].old_index ELSE None,
                            IF r.ok THEN << >> ELSE <<r.msg>>)
        /\ threads' = [threads EXCEPT !.t[i].pc = "idle",
                                      !.t[i].calls = threads.t[i].calls + 1]
        /\ UNCHANGED <<headers, heap, log, afterCloseAll>>

InitThreads ==
    /\ ManagerInit
    /\ threads \in {StartThreads(TRUE), StartThreads(FALSE)}
    /\ log = << >>
    /\ afterCloseAll = FALSE
    /\ last = [op |-> "__init__", arg |-> NoneV, ok |-> TRUE, ret |-> None,
               err |-> "", msg |-> << >>, req |-> None, resp |-> NoResponse,
               before |-> None, beforeConn |-> NoConn]

NextThreads ==
    \E i \in Callers :
        \/ ThreadConnectBegin(i)
        \/ ThreadConnect107(i)
        \/ ThreadConnect108(i)
        \/ ThreadSwitch130(i)
        \/ ThreadSwitch131(i)

SpecThreads == InitThreads /\ [][NextThreads]_vars

\* No caller is inside a keyword.
Quiescent == \A i \in Callers : threads.t[i].pc = "idle"

\* The manager and its registry agree with the calls that have returned:
\* the manager's connection is the registry's current one; the k-th connect
\* to return, which was given index k, has the connection it created at
\* index k; and an alias no later connect has passed again leads to the
\* connection of the connect that passed it.
Consistent ==
    /\ (Truthy(_connection) \/ Truthy(_cache.current)) => _connection = _cache.current
    /\ Len(_cache._connections) = Len(log)
    /\ \A k \in 1..Len(log) :
          /\ _cache._connections[k] = log[k].conn
          /\ (log[k].alias.t = "str" /\ NotRebound(k)) =>
                /\ Normalize(log[k].alias.v) \in DOMAIN _cache._aliases
                /\ _cache._connections[_cache._aliases[Normalize(log[k].alias.v)]]
                     = log[k].conn

\* C19: when the callers take turns, each keyword running from its first to
\* its last statement with no other in between, the manager and its
\* registry are consistent whenever no keyword is running; without turns,
\* interleaving the statements of two connects, or of a connect and a
\* switch, reaches states that are not (see the witness).
C19_SerializedCallsAreConsistent ==
    (threads.locking /\ Quiescent) => Consistent

\* C19 witness: the callers did not take turns, both threads have returned
\* from connect_to_tomcat with different aliases, and the alias of one
\* leads to a connection to the other's host.
C19_Witness ==
    /\ ~threads.locking
    /\ Quiescent
    /\ Len(log) = 2
    /\ log[1].host # log[2].host
    /\ ~SameAlias(log[1].alias, log[2].alias)
    /\ \E k \in 1..2 :
          LET at == _cache._aliases[Normalize(log[k].alias.v)]
          IN  /\ _cache._connections[at] # log[k].conn
              /\ heap[_cache._connections[at].id].url # heap[log[k].conn.id].url

=============================================================================
